---------------------------- MODULE Spec2Model ----------------------------
(***************************************************************************)
(* Rule engine of the burn consult page (app.py) and of the appendicitis   *)
(* consult page (pages/2_Appendicitis_Consult.py): readiness scoring,      *)
(* scope triage and recommendation tier, and the burn page's output        *)
(* section that chains them.                                               *)
(*                                                                         *)
(* Python values held by an inputs record are encoded as strings:          *)
(*   "true"   the boolean True          "false"  the boolean False         *)
(*   "none"   the value None            "absent" the key is not in the dict*)
(*   "yes"    a truthy value that is not a boolean (a non-empty string)    *)
(* Enum fields hold their string token.  Percentages are held in tenths    *)
(* of a percent (58.3 is 583), the precision round(x, 1) keeps.            *)
(***************************************************************************)
EXTENDS Integers, Sequences, FiniteSets, TLC

VARIABLES
    page,              \* "burn" (app.py) or "appy" (2_Appendicitis_Consult.py)
    inputs,            \* the inputs dict: field key -> encoded value
    details,           \* the details dict, in insertion order: <<label, value>> pairs
    pc,                \* "start", "called" (one evaluation made), "recalled" (a second one)
    required_keys,     \* the required list built by the readiness function
    r,                 \* readiness result: [completeness_pct, missing_items]
    scope,             \* scope returned by the scope classifier
    why,               \* rationale returned by the scope classifier
    completeness,      \* percentage argument given to the recommendation function
    scopeArg,          \* scope argument given to the recommendation function
    tier,              \* tier returned by the recommendation function
    prevCompleteness,  \* percentage argument of the previous recommendation call
    prevTier,          \* tier returned by the previous recommendation call
    inputs_for_logic,  \* burn output section: the patched copy of inputs
    msg,               \* burn output section: message of generate_message_v5, as fragments
    msg2,              \* burn output section: the paste-ready message, as fragments
    widgets,           \* page session: the value each widget holds (widget key -> value)
    event,             \* the last UI event or helper call: <<kind, argument, ...>>
    nevents,           \* number of UI events or helper calls so far
    prevMsg            \* the message composed by the previous composition

vars == <<page, inputs, details, pc, required_keys, r, scope, why, completeness,
          scopeArg, tier, prevCompleteness, prevTier, inputs_for_logic, msg, msg2,
          widgets, event, nevents, prevMsg>>

\* ------------------------------------------------------------------ bounds
\* Number of fields of a base record that an enumerated record may change.
MaxEdits == 2
\* Percentage arguments are drawn this many tenths around each threshold.
MaxDelta == 1

\* ------------------------------------------------------------- burn tables
CHECKLIST ==
    "mechanism_documented" :> "Mechanism documented" @@
    "time_of_injury" :> "Time of injury documented" @@
    "morphology_burn_consistent" :> "Morphology consistent with burn" @@
    "depth_estimated" :> "Depth estimated" @@
    "tbsa_estimated" :> "TBSA estimated" @@
    "location_high_risk_checked" :> "High-risk areas assessed" @@
    "circumferential_checked" :> "Circumferential involvement assessed" @@
    "chemical_agent_known_if_chemical" :> "If chemical: agent identified + decontamination documented" @@
    "electrical_voltage_known_if_electrical" :> "If electrical: voltage/LOC/ECG documented" @@
    "inhalation_risk_assessed" :> "Inhalation risk assessed" @@
    "inhalation_risk_present" :> "Inhalation risk PRESENT" @@
    "vitals_reviewed" :> "Vitals reviewed / instability assessed" @@
    "comorbidities_reviewed" :> "Major comorbidities reviewed" @@
    "consult_question_defined" :> "Consult question defined (what do you want Burn to do?)" @@
    "severe_skin_failure_flag" :> "Severe skin failure suspected (e.g., SJS/TEN pattern)"

\* The literal list that burn_consult_readiness_v2 starts required_keys from.
BurnCoreKeys ==
    << "mechanism_documented", "time_of_injury", "morphology_burn_consistent",
       "depth_estimated", "tbsa_estimated", "location_high_risk_checked",
       "circumferential_checked", "vitals_reviewed", "comorbidities_reviewed",
       "consult_question_defined", "inhalation_risk_assessed",
       "inhalation_risk_present" >>

\* Options of the mechanism type selectbox.
MechanismOptions ==
    {"thermal", "scald", "chemical", "electrical", "inhalation", "friction", "unknown"}

\* ------------------------------------------------------ appendicitis tables
\* The literal list `required` of compute_readiness.
AppyRequired ==
    << "vitals_reviewed", "pain_location_documented", "pain_duration_documented",
       "exam_documented", "cbc_reviewed", "pregnancy_addressed",
       "imaging_addressed", "consult_question_defined" >>

\* The dict `labels` of compute_readiness.
AppyLabels ==
    "vitals_reviewed" :> "Vitals reviewed / stability assessed" @@
    "pain_location_documented" :> "Pain location documented (incl. migration)" @@
    "pain_duration_documented" :> "Duration / timeline documented" @@
    "exam_documented" :> "Focused abdominal exam documented" @@
    "cbc_reviewed" :> "CBC/WBC addressed" @@
    "pregnancy_addressed" :> "Pregnancy status addressed (if applicable)" @@
    "imaging_addressed" :> "Imaging plan/result addressed" @@
    "consult_question_defined" :> "Consult question defined"

\* Options of the clinical suspicion radio.
SuspicionOptions == {"High", "Moderate", "Low", "Uncertain"}

\* Options of the imaging impression radio.
ImpressionOptions == {"Not available", "Negative", "Equivocal", "Confirmed appendicitis"}

\* ------------------------------------------------------------ dict access
\* inputs.get(k): None when the key is absent.
Get(inp, k) == IF k \notin DOMAIN inp \/ inp[k] = "absent" THEN "none" ELSE inp[k]

\* inputs.get(k, default)
GetDefault(inp, k, default) ==
    IF k \notin DOMAIN inp \/ inp[k] = "absent" THEN default ELSE inp[k]

\* `inputs.get(k)` tested for truthiness instead of `is True`.
IsTruthy(inp, k) ==
    (IF k \notin DOMAIN inp \/ inp[k] = "absent" THEN "none" ELSE inp[k])
        \notin {"false", "none", "absent", ""}

\* `inputs.get(k) is True`
IsTrue(inp, k) == Get(inp, k) = "true"

\* Python truthiness of an encoded value.
Truthy(v) == v \notin {"false", "none", "absent", ""}

\* round(done / total * 100, 1), in tenths of a percent (round half to even).
Round1(done, total) ==
    LET q   == (1000 * done) \div total
        rem == (1000 * done) % total
    IN  IF 2 * rem > total THEN q + 1
        ELSE IF 2 * rem < total THEN q
        ELSE IF q % 2 = 0 THEN q ELSE q + 1

\* ------------------------------------------------------- readiness (burn)
\* required_keys with the conditional fields inserted at the front.
burn_required_keys_front(inp) ==
    LET mech_type == GetDefault(inp, "mechanism_type", "unknown")
    IN  (IF mech_type = "electrical"
         THEN << "electrical_voltage_known_if_electrical" >> ELSE << >>)
        \o (IF mech_type = "chemical"
            THEN << "chemical_agent_known_if_chemical" >> ELSE << >>)
        \o BurnCoreKeys

\* required_keys with the chemical field appended whatever the mechanism type.
burn_required_keys_always(inp) ==
    LET mech_type == GetDefault(inp, "mechanism_type", "unknown")
    IN  BurnCoreKeys
        \o << "chemical_agent_known_if_chemical" >>
        \o (IF mech_type = "electrical"
            THEN << "electrical_voltage_known_if_electrical" >> ELSE << >>)

\* required_keys of burn_consult_readiness_v2 after the two conditional appends.
burn_required_keys(inp) ==
    LET mech_type == GetDefault(inp, "mechanism_type", "unknown")
    IN  BurnCoreKeys
        \o (IF mech_type = "chemical"
            THEN << "chemical_agent_known_if_chemical" >> ELSE << >>)
        \o (IF mech_type = "electrical"
            THEN << "electrical_voltage_known_if_electrical" >> ELSE << >>)

burn_consult_readiness_v2(inp) ==
    LET req == burn_required_keys(inp)
        IsDone(k) == IsTrue(inp, k)
        NotDone(k) == ~IsTrue(inp, k)
        InChecklist(k) == k \in DOMAIN CHECKLIST
        done == SelectSeq(req, IsDone)
        missing == SelectSeq(req, NotDone)
        labelled == SelectSeq(missing, InChecklist)
    IN  [ completeness_pct |-> Round1(Len(done), Len(req)),
          missing_items |-> [i \in 1..Len(labelled) |-> CHECKLIST[labelled[i]]] ]

\* ----------------------------------------------- readiness (appendicitis)
compute_readiness(inp) ==
    LET IsDone(k) == IsTrue(inp, k)
        NotDone(k) == ~IsTrue(inp, k)
        done == SelectSeq(AppyRequired, IsDone)
        missing == SelectSeq(AppyRequired, NotDone)
    IN  [ completeness_pct |-> Round1(Len(done), Len(AppyRequired)),
          missing_items |-> [i \in 1..Len(missing) |-> AppyLabels[missing[i]]] ]

\* ------------------------------------------------------ scope triage (burn)
\* scope_triage_v2 with the outside-of-scope test moved above the special test.
scope_triage_v2_outside_first(inp) ==
    LET mech == Get(inp, "mechanism_documented") = "true"
        morph == Get(inp, "morphology_burn_consistent") = "true"
        chemical == Get(inp, "chemical_agent_known_if_chemical") = "true"
        electrical == Get(inp, "electrical_voltage_known_if_electrical") = "true"
        inhalation == Get(inp, "inhalation_risk_present") = "true"
    IN  IF mech /\ morph
        THEN [scope |-> "WITHIN SCOPE", why |-> "Burn-consistent mechanism and morphology."]
        ELSE IF ~mech \/ ~morph
        THEN [scope |-> "OUTSIDE OF SCOPE",
              why |-> "Mechanism or morphology not consistent with burn."]
        ELSE IF chemical \/ electrical \/ inhalation
        THEN [scope |-> "WITHIN SCOPE", why |-> "Special burn mechanism present."]
        ELSE [scope |-> "UNCERTAIN", why |-> "Insufficient data to confirm burn scope."]

\* scope_triage_v2 with the outside-of-scope test asking for a flag that is
\* the boolean False, instead of one that is not True.
scope_triage_v2_explicit_false(inp) ==
    LET mech == IsTrue(inp, "mechanism_documented")
        morph == IsTrue(inp, "morphology_burn_consistent")
        chemical == IsTrue(inp, "chemical_agent_known_if_chemical")
        electrical == IsTrue(inp, "electrical_voltage_known_if_electrical")
        inhalation == IsTrue(inp, "inhalation_risk_present")
    IN  IF mech /\ morph
        THEN [scope |-> "WITHIN SCOPE", why |-> "Burn-consistent mechanism and morphology."]
        ELSE IF chemical \/ electrical \/ inhalation
        THEN [scope |-> "WITHIN SCOPE", why |-> "Special burn mechanism present."]
        ELSE IF \/ Get(inp, "mechanism_documented") = "false"
                \/ Get(inp, "morphology_burn_consistent") = "false"
        THEN [scope |-> "OUTSIDE OF SCOPE",
              why |-> "Mechanism or morphology not consistent with burn."]
        ELSE [scope |-> "UNCERTAIN", why |-> "Insufficient data to confirm burn scope."]

scope_triage_v2(inp) ==
    LET mech == IsTrue(inp, "mechanism_documented")
        morph == IsTrue(inp, "morphology_burn_consistent")
        chemical == IsTrue(inp, "chemical_agent_known_if_chemical")
        electrical == IsTrue(inp, "electrical_voltage_known_if_electrical")
        inhalation == IsTrue(inp, "inhalation_risk_present")
    IN  IF mech /\ morph
        THEN [scope |-> "WITHIN SCOPE", why |-> "Burn-consistent mechanism and morphology."]
        ELSE IF chemical \/ electrical \/ inhalation
        THEN [scope |-> "WITHIN SCOPE", why |-> "Special burn mechanism present."]
        ELSE IF ~mech \/ ~morph
        THEN [scope |-> "OUTSIDE OF SCOPE",
              why |-> "Mechanism or morphology not consistent with burn."]
        ELSE [scope |-> "UNCERTAIN", why |-> "Insufficient data to confirm burn scope."]

\* ---------------------------------------------- scope triage (appendicitis)
\* triage_scope with the red flags read by truthiness instead of `is True`.
triage_scope_truthy(inp) ==
    LET unstable == IsTruthy(inp, "hemodynamic_instability")
        peritonitis == IsTruthy(inp, "peritonitis")
        sepsis == IsTruthy(inp, "sepsis_concern")
        imaging_confirmed == Get(inp, "imaging_impression") = "Confirmed appendicitis"
        complicated == IsTruthy(inp, "complicated_features")
        suspicion == GetDefault(inp, "clinical_suspicion", "Uncertain")
    IN  IF unstable \/ peritonitis \/ sepsis \/ imaging_confirmed \/ complicated
        THEN [scope |-> "HIGH RISK",
              why |-> "Red flags present (instability/peritonitis/sepsis/confirmed or complicated appendicitis)."]
        ELSE IF suspicion \in {"High", "Moderate"}
        THEN [scope |-> "LIKELY",
              why |-> "Clinical picture reasonably consistent with appendicitis."]
        ELSE IF suspicion = "Low"
        THEN [scope |-> "UNLIKELY",
              why |-> "Clinical picture less consistent with appendicitis."]
        ELSE [scope |-> "UNCERTAIN", why |-> "Insufficient data to estimate likelihood."]

\* triage_scope with every token other than High and Moderate treated as Low.
triage_scope_low_default(inp) ==
    LET unstable == IsTrue(inp, "hemodynamic_instability")
        peritonitis == IsTrue(inp, "peritonitis")
        sepsis == IsTrue(inp, "sepsis_concern")
        imaging_confirmed == Get(inp, "imaging_impression") = "Confirmed appendicitis"
        complicated == IsTrue(inp, "complicated_features")
        suspicion == GetDefault(inp, "clinical_suspicion", "Uncertain")
    IN  IF unstable \/ peritonitis \/ sepsis \/ imaging_confirmed \/ complicated
        THEN [scope |-> "HIGH RISK",
              why |-> "Red flags present (instability/peritonitis/sepsis/confirmed or complicated appendicitis)."]
        ELSE IF suspicion \in {"High", "Moderate"}
        THEN [scope |-> "LIKELY",
              why |-> "Clinical picture reasonably consistent with appendicitis."]
        ELSE [scope |-> "UNLIKELY",
              why |-> "Clinical picture less consistent with appendicitis."]

triage_scope(inp) ==
    LET unstable == IsTrue(inp, "hemodynamic_instability")
        peritonitis == IsTrue(inp, "peritonitis")
        sepsis == IsTrue(inp, "sepsis_concern")
        imaging_confirmed == Get(inp, "imaging_impression") = "Confirmed appendicitis"
        complicated == IsTrue(inp, "complicated_features")
        suspicion == GetDefault(inp, "clinical_suspicion", "Uncertain")
    IN  IF unstable \/ peritonitis \/ sepsis \/ imaging_confirmed \/ complicated
        THEN [scope |-> "HIGH RISK",
              why |-> "Red flags present (instability/peritonitis/sepsis/confirmed or complicated appendicitis)."]
        ELSE IF suspicion \in {"High", "Moderate"}
        THEN [scope |-> "LIKELY",
              why |-> "Clinical picture reasonably consistent with appendicitis."]
        ELSE IF suspicion = "Low"
        THEN [scope |-> "UNLIKELY",
              why |-> "Clinical picture less consistent with appendicitis."]
        ELSE [scope |-> "UNCERTAIN", why |-> "Insufficient data to estimate likelihood."]

\* ------------------------------------------------ recommendation tier (burn)
\* `completeness >= 70`
BurnThreshold == 70

recommendation_tier_v2(inp, pct, sc) ==
    LET high_risk == IsTrue(inp, "location_high_risk_checked")
        special == \/ IsTrue(inp, "chemical_agent_known_if_chemical")
                   \/ IsTrue(inp, "electrical_voltage_known_if_electrical")
                   \/ IsTrue(inp, "inhalation_risk_present")
    IN  IF sc = "OUTSIDE OF SCOPE" THEN "CONSIDER ALTERNATE SERVICE"
        ELSE IF sc = "WITHIN SCOPE" /\ (special \/ high_risk) THEN "CONSULT NOW"
        ELSE IF sc = "WITHIN SCOPE"
        THEN IF pct >= BurnThreshold * 10
             THEN "STRONGLY RECOMMEND BURN SURGERY CONSULT"
             ELSE "LOW RECOMMENDATION FOR BURN SURGERY CONSULT"
        ELSE "CONSIDER ALTERNATE SERVICE"

\* ---------------------------------------- recommendation tier (appendicitis)
\* `readiness_pct >= 60`
AppyThreshold == 60

\* recommendation_tier with the High branch put under the threshold as well.
recommendation_tier_high_gated(inp, pct, sc) ==
    LET suspicion == GetDefault(inp, "clinical_suspicion", "Uncertain")
    IN  IF sc = "HIGH RISK" THEN "CONSULT NOW"
        ELSE IF suspicion = "High"
        THEN IF pct >= 600
             THEN "STRONGLY RECOMMEND GEN SURG CONSULT"
             ELSE "LOW RECOMMENDATION (GET KEY INFO FIRST)"
        ELSE IF suspicion = "Moderate"
        THEN IF pct >= 600
             THEN "RECOMMEND GEN SURG CONSULT"
             ELSE "LOW RECOMMENDATION (GET KEY INFO FIRST)"
        ELSE IF suspicion = "Low" THEN "CONSIDER ALTERNATE SERVICE / OBSERVE"
        ELSE "CONSIDER ALTERNATE SERVICE / GET MORE DATA"

\* recommendation_tier with the two results of the Moderate branch swapped.
recommendation_tier_swapped(inp, pct, sc) ==
    LET suspicion == GetDefault(inp, "clinical_suspicion", "Uncertain")
    IN  IF sc = "HIGH RISK" THEN "CONSULT NOW"
        ELSE IF suspicion = "High" THEN "STRONGLY RECOMMEND GEN SURG CONSULT"
        ELSE IF suspicion = "Moderate"
        THEN IF pct >= 600
             THEN "LOW RECOMMENDATION (GET KEY INFO FIRST)"
             ELSE "RECOMMEND GEN SURG CONSULT"
        ELSE IF suspicion = "Low" THEN "CONSIDER ALTERNATE SERVICE / OBSERVE"
        ELSE "CONSIDER ALTERNATE SERVICE / GET MORE DATA"

recommendation_tier(inp, pct, sc) ==
    LET suspicion == GetDefault(inp, "clinical_suspicion", "Uncertain")
    IN  IF sc = "HIGH RISK" THEN "CONSULT NOW"
        ELSE IF suspicion = "High" THEN "STRONGLY RECOMMEND GEN SURG CONSULT"
        ELSE IF suspicion = "Moderate"
        THEN IF pct >= AppyThreshold * 10
             THEN "RECOMMEND GEN SURG CONSULT"
             ELSE "LOW RECOMMENDATION (GET KEY INFO FIRST)"
        ELSE IF suspicion = "Low" THEN "CONSIDER ALTERNATE SERVICE / OBSERVE"
        ELSE "CONSIDER ALTERNATE SERVICE / GET MORE DATA"

\* ------------------------------------------------------------ details dict
\* details.get(label, default) on the ordered <<label, value>> pairs.
DetailGet(d, label, default) ==
    IF \E i \in 1..Len(d) : d[i][1] = label
    THEN d[CHOOSE i \in 1..Len(d) : d[i][1] = label][2]
    ELSE default

\* details[label] = value: replaces in place, or appends a new key.
DictPut(d, label, value) ==
    IF \E i \in 1..Len(d) : d[i][1] = label
    THEN [i \in 1..Len(d) |-> IF d[i][1] = label THEN << label, value >> ELSE d[i]]
    ELSE Append(d, << label, value >>)

\* str.strip() on the texts the model enters.
Strip(v) ==
    CASE v \in {"", " ", "  "} -> ""
      [] v = " hot water scald " -> "hot water scald"
      [] OTHER -> v

\* add_detail of app.py without the `value.strip()` test: every str is stored.
add_detail_any_str(d, label, value) ==
    IF value # "none" THEN DictPut(d, label, Strip(value)) ELSE d

\* add_detail of app.py; a value that is not a str is encoded "none".
add_detail(d, label, value) ==
    IF value # "none" /\ Strip(value) # "" THEN DictPut(d, label, Strip(value)) ELSE d

\* sep.join(s) of a list of str, as one str
RECURSIVE JoinStr(_, _)
JoinStr(s, sep) ==
    IF Len(s) = 0 THEN ""
    ELSE IF Len(s) = 1 THEN s[1]
    ELSE s[1] \o sep \o JoinStr(Tail(s), sep)

\* add_detail of 2_Appendicitis_Consult.py.  Its value argument is any Python
\* value, held as [kind, text, items]: kind "str" with the string in text,
\* "None", "list" with str(v) of each element in items, or "int" with
\* str(value) in text.
appy_add_detail(d, label, value) ==
    IF value.kind = "None" THEN d
    ELSE LET NonBlank(v) == Strip(v) # ""
             kept == SelectSeq(value.items, NonBlank)
             joined == JoinStr([i \in 1..Len(kept) |-> Strip(kept[i])], ", ")
             text == Strip(IF value.kind = "list" THEN joined ELSE value.text)
         IN  IF text # "" THEN DictPut(d, label, text) ELSE d

\* f"{tbsa_pct:.1f}%" for the number_input values the model enters (tenths).
FormatTbsa == (0 :> "0.0%") @@ (5 :> "0.5%") @@ (120 :> "12.0%")

\* float(text.replace("%", "").strip()): ok is FALSE where float() raises.
ParseTbsa(text) ==
    IF \E t \in DOMAIN FormatTbsa : FormatTbsa[t] = text
    THEN [ok |-> TRUE, value |-> CHOOSE t \in DOMAIN FormatTbsa : FormatTbsa[t] = text]
    ELSE [ok |-> FALSE, value |-> 0]

inferred_burn_evidence(d) ==
    LET depth == DetailGet(d, "Depth (structured)", "")
        depth_implies ==
            depth \in {"Superficial", "Superficial partial", "Deep partial", "Full thickness"}
        tbsa_text == DetailGet(d, "TBSA % (structured)", "")
        parsed == ParseTbsa(tbsa_text)
        tbsa_implies == IF parsed.ok THEN parsed.value > 0 ELSE FALSE
        morph_struct == DetailGet(d, "Morphology (structured)", "")
        morph_implies == Strip(morph_struct) # ""
    IN  depth_implies \/ tbsa_implies \/ morph_implies

\* ------------------------------------------------------- message generator
\* s[:n]
Take(s, n) == SubSeq(s, 1, IF Len(s) < n THEN Len(s) ELSE n)

\* sep.join(s), as fragments
RECURSIVE Join(_, _)
Join(s, sep) ==
    IF Len(s) = 0 THEN << >>
    ELSE IF Len(s) = 1 THEN << s[1] >>
    ELSE << s[1], sep >> \o Join(Tail(s), sep)

\* `missing[:4]`
BurnMissingCap == 4

generate_message_v5(inp, sc, rationale, missing) ==
    LET missing_short ==
            IF Len(missing) > 0 THEN Join(Take(missing, BurnMissingCap), "; ") ELSE << >>
        severe_skin == IsTrue(inp, "severe_skin_failure_flag")
    IN  IF sc = "OUTSIDE OF SCOPE"
        THEN (IF severe_skin
              THEN << rationale,
                      " The presentation suggests a severe non-burn skin process. Recommend urgent multidisciplinary evaluation per local protocol. Escalate appropriately. Burn Surgery can be re-consulted if burn features emerge." >>
              ELSE << rationale,
                      " Burn Surgery involvement is not clearly indicated at this time. Recommend evaluation by an alternate appropriate service per local protocol. Re-consult Burn Surgery if burn-consistent features develop." >>)
             \o (IF Len(missing_short) > 0
                 THEN << " Missing elements: " >> \o missing_short \o << "." >>
                 ELSE << >>)
        ELSE << "Recommend Burn Surgery consultation to assist with depth/TBSA assessment and determine need for burn-center evaluation or transfer. Rationale: ",
                rationale >>
             \o (IF Len(missing_short) > 0
                 THEN << " Missing elements being obtained: " >> \o missing_short \o << "." >>
                 ELSE << >>)

\* -------------------------------------------------- output section (burn)
\* details_block with the lines in reverse insertion order.
RECURSIVE details_block_reversed(_)
details_block_reversed(d) ==
    IF Len(d) = 0 THEN << >>
    ELSE details_block_reversed(Tail(d))
         \o (IF Len(d) > 1 THEN << "\n" >> ELSE << >>) \o << "- ", d[1][1], ": ", d[1][2] >>

\* "\n".join(f"- {k}: {v}" for k, v in details.items()), as fragments
RECURSIVE details_block(_)
details_block(d) ==
    IF Len(d) = 0 THEN << >>
    ELSE << "- ", d[1][1], ": ", d[1][2] >>
         \o (IF Len(d) > 1 THEN << "\n" >> ELSE << >>) \o details_block(Tail(d))

\* ------------------------------------------- message builder (appendicitis)
\* `missing[:6]`
AppyMissingCap == 6

\* build_message, as fragments.  The lines are those of the entries whose
\* value is not blank; `.strip()` of the joined block removes nothing, the
\* block starting with "- " and ending with a stripped value.
build_message(det, t, rationale, missing) ==
    LET HasValue(e) == Strip(e[2]) # ""
        key_block == details_block(SelectSeq(det, HasValue))
        missing_short ==
            IF Len(missing) > 0 THEN Join(Take(missing, AppyMissingCap), "; ") ELSE << >>
    IN  << "Recommend: ", t, ". Rationale: ", rationale >>
        \o (IF Len(key_block) > 0
            THEN << "\n\nKey details:\n" >> \o key_block ELSE << >>)
        \o (IF Len(missing_short) > 0
            THEN << "\n\nMissing items to make consult higher-yield: " >>
                 \o missing_short \o << "." >>
            ELSE << >>)

\* The `with right:` block with the readiness computed after the patch, from
\* the patched copy.
BurnOutput_readiness_patched(inp, det) ==
    LET burn_evidence == inferred_burn_evidence(det)
        patch == burn_evidence
                 /\ ~Truthy(GetDefault(inp, "morphology_burn_consistent", "false"))
        logic == IF patch
                 THEN [inp EXCEPT !["morphology_burn_consistent"] = "true"]
                 ELSE inp
        rr == burn_consult_readiness_v2(logic)
        st == scope_triage_v2(logic)
        tr == recommendation_tier_v2(logic, rr.completeness_pct, st.scope)
        m == generate_message_v5(logic, st.scope, st.why, rr.missing_items)
    IN  [ r |-> rr, inputs_for_logic |-> logic, scope |-> st.scope, why |-> st.why,
          tier |-> tr, msg |-> m,
          msg2 |-> IF Len(det) > 0
                   THEN m \o << "\n\nKey details documented:\n" >> \o details_block(det)
                   ELSE m ]

\* The `with right:` block: everything it computes from inputs and details.
BurnOutput(inp, det) ==
    LET rr == burn_consult_readiness_v2(inp)
        burn_evidence == inferred_burn_evidence(det)
        patch == burn_evidence
                 /\ ~Truthy(GetDefault(inp, "morphology_burn_consistent", "false"))
        logic == IF patch
                 THEN [inp EXCEPT !["morphology_burn_consistent"] = "true"]
                 ELSE inp
        st == scope_triage_v2(logic)
        tr == recommendation_tier_v2(logic, rr.completeness_pct, st.scope)
        m == generate_message_v5(logic, st.scope, st.why, rr.missing_items)
    IN  [ r |-> rr, inputs_for_logic |-> logic, scope |-> st.scope, why |-> st.why,
          tier |-> tr, msg |-> m,
          msg2 |-> IF Len(det) > 0
                   THEN m \o << "\n\nKey details documented:\n" >> \o details_block(det)
                   ELSE m ]

\* ------------------------------------------------------ enumerated inputs
Pages == {"burn", "appy"}

BurnKeys == DOMAIN CHECKLIST \cup {"mechanism_type"}

\* Flags that triage_scope reads besides the readiness checkboxes.
AppyRedFlagKeys ==
    {"hemodynamic_instability", "peritonitis", "sepsis_concern", "complicated_features"}

AppyKeys ==
    DOMAIN AppyLabels \cup AppyRedFlagKeys \cup {"clinical_suspicion", "imaging_impression"}

Keys(pg) == IF pg = "burn" THEN BurnKeys ELSE AppyKeys

\* Values a flag field is given: the three a widget can produce and two it cannot.
FlagValues == {"true", "false", "none", "absent", "yes"}

\* Values a field is given: an enum field also gets a token outside its options.
FieldValues(k) ==
    CASE k = "mechanism_type" -> MechanismOptions \cup {"plasma", "absent"}
      [] k = "clinical_suspicion" -> SuspicionOptions \cup {"Very high", "absent"}
      [] k = "imaging_impression" -> ImpressionOptions \cup {"absent"}
      [] OTHER -> FlagValues

\* The record a page builds when every checkbox holds v and nothing else was
\* touched: selectbox and radios at their default index, the mechanism-specific
\* flags None (mechanism type is not chemical/electrical), the radio-derived
\* red flags False.
BaseInputs(pg, v) ==
    IF pg = "burn"
    THEN [k \in BurnKeys |->
            IF k = "mechanism_type" THEN "thermal"
            ELSE IF k \in {"chemical_agent_known_if_chemical",
                           "electrical_voltage_known_if_electrical"} THEN "none"
            ELSE v]
    ELSE [k \in AppyKeys |->
            IF k = "clinical_suspicion" THEN "Uncertain"
            ELSE IF k = "imaging_impression" THEN "Not available"
            ELSE IF k \in AppyRedFlagKeys THEN "false"
            ELSE v]

\* One edit of a record: a field of keys and a value for it.
Edits(keys) ==
    { e \in keys \X (FlagValues \cup FieldValues("mechanism_type")
                      \cup FieldValues("clinical_suspicion")
                      \cup FieldValues("imaging_impression")) : e[2] \in FieldValues(e[1]) }

\* base after the edits es[1], es[2], ... in turn.
RECURSIVE ApplyEdits(_, _)
ApplyEdits(base, es) ==
    IF Len(es) = 0 THEN base
    ELSE ApplyEdits([base EXCEPT ![es[1][1]] = es[1][2]], Tail(es))

\* inp differs from base in at most MaxEdits of the given fields.
Near(inp, base, keys) ==
    \E es \in [1..MaxEdits -> Edits(keys)] : inp = ApplyEdits(base, es)

\* Fields the recommendation function, and the rule it implements, speak of.
TierKeys(pg) ==
    IF pg = "burn"
    THEN {"location_high_risk_checked", "chemical_agent_known_if_chemical",
          "electrical_voltage_known_if_electrical", "inhalation_risk_present"}
    ELSE AppyRedFlagKeys \cup {"clinical_suspicion", "imaging_impression"}

\* Fields the scope classifier and the recommendation function read, and the
\* enum field that selects the conditional requirements.
RuleKeys(pg) ==
    IF pg = "burn"
    THEN TierKeys("burn") \cup {"mechanism_documented", "morphology_burn_consistent",
                                "mechanism_type"}
    ELSE TierKeys("appy")

\* Percentage arguments (tenths): the extremes and the values around each threshold.
PctArgs ==
    {0, 1000} \cup { t * 10 + d : t \in {AppyThreshold, BurnThreshold},
                                  d \in (0 - MaxDelta)..MaxDelta }

\* Scope arguments: the closed set of the page's classifier.
ScopeArgs(pg) ==
    IF pg = "burn"
    THEN {"WITHIN SCOPE", "OUTSIDE OF SCOPE", "UNCERTAIN"}
    ELSE {"HIGH RISK", "LIKELY", "UNLIKELY", "UNCERTAIN"}

\* ------------------------------------------------------------------ states
NoReadiness == [completeness_pct |-> 0, missing_items |-> << >>]

\* Nothing evaluated yet.
Fresh ==
    /\ pc = "start"
    /\ required_keys = << >>
    /\ r = NoReadiness
    /\ scope = "" /\ why = ""
    /\ completeness = 0 /\ scopeArg = "" /\ tier = ""
    /\ prevCompleteness = 0 /\ prevTier = ""
    /\ inputs_for_logic = << >>
    /\ msg = << >> /\ msg2 = << >>
    /\ widgets = << >> /\ event = << >> /\ nevents = 0 /\ prevMsg = << >>

\* Any record near a base record, on either page; no details.
InitFunctions ==
    /\ page \in Pages
    /\ \E v \in {"true", "false"} : Near(inputs, BaseInputs(page, v), Keys(page))
    /\ details = << >>
    /\ Fresh

\* Records that differ from the all-unchecked record in the fields the
\* recommendation rule speaks of.
InitTier ==
    /\ page \in Pages
    /\ Near(inputs, BaseInputs(page, "false"), TierKeys(page))
    /\ details = << >>
    /\ Fresh

\* Records that differ from a base record in the fields the precedence rules
\* and the conditional requirements read.  The base value of the checkboxes
\* matters to the burn rules only (mechanism and morphology both checked).
InitRules ==
    /\ page \in Pages
    /\ \E v \in (IF page = "burn" THEN {"true", "false"} ELSE {"false"}) :
          Near(inputs, BaseInputs(page, v), RuleKeys(page))
    /\ details = << >>
    /\ Fresh

\* ----------------------------------------------------------------- actions
\* r = burn_consult_readiness_v2(inputs)
CallBurnReadiness ==
    /\ page = "burn" /\ pc = "start"
    /\ required_keys' = burn_required_keys(inputs)
    /\ r' = burn_consult_readiness_v2(inputs)
    /\ pc' = "called"
    /\ UNCHANGED <<page, inputs, details, widgets, event, nevents, prevMsg,
                   scope, why, completeness, scopeArg, tier,
                   prevCompleteness, prevTier, inputs_for_logic, msg, msg2>>

\* readiness_pct, missing = compute_readiness(inputs)
CallComputeReadiness ==
    /\ page = "appy" /\ pc = "start"
    /\ required_keys' = AppyRequired
    /\ r' = compute_readiness(inputs)
    /\ pc' = "called"
    /\ UNCHANGED <<page, inputs, details, widgets, event, nevents, prevMsg,
                   scope, why, completeness, scopeArg, tier,
                   prevCompleteness, prevTier, inputs_for_logic, msg, msg2>>

\* scope, why = scope_triage_v2(inputs)
CallScopeTriageV2 ==
    /\ page = "burn" /\ pc = "start"
    /\ scope' = scope_triage_v2(inputs).scope
    /\ why' = scope_triage_v2(inputs).why
    /\ pc' = "called"
    /\ UNCHANGED <<page, inputs, details, widgets, event, nevents, prevMsg,
                   required_keys, r, completeness, scopeArg, tier,
                   prevCompleteness, prevTier, inputs_for_logic, msg, msg2>>

\* scope, why = triage_scope(inputs)
CallTriageScope ==
    /\ page = "appy" /\ pc = "start"
    /\ scope' = triage_scope(inputs).scope
    /\ why' = triage_scope(inputs).why
    /\ pc' = "called"
    /\ UNCHANGED <<page, inputs, details, widgets, event, nevents, prevMsg,
                   required_keys, r, completeness, scopeArg, tier,
                   prevCompleteness, prevTier, inputs_for_logic, msg, msg2>>

\* tier = recommendation_tier_v2(inputs, p, s); a second call keeps the inputs
\* and the scope and gives a percentage that is not lower.
CallRecommendationTierV2 ==
    /\ page = "burn" /\ pc \in {"start", "called"}
    /\ \E p \in PctArgs, s \in ScopeArgs("burn") :
          /\ pc = "called" => (s = scopeArg /\ p >= completeness)
          /\ completeness' = p
          /\ scopeArg' = s
          /\ tier' = recommendation_tier_v2(inputs, p, s)
    /\ prevCompleteness' = completeness
    /\ prevTier' = tier
    /\ pc' = IF pc = "start" THEN "called" ELSE "recalled"
    /\ UNCHANGED <<page, inputs, details, widgets, event, nevents, prevMsg,
                   required_keys, r, scope, why,
                   inputs_for_logic, msg, msg2>>

\* tier = recommendation_tier(inputs, p, s); second call as above.
CallRecommendationTier ==
    /\ page = "appy" /\ pc \in {"start", "called"}
    /\ \E p \in PctArgs, s \in ScopeArgs("appy") :
          /\ pc = "called" => (s = scopeArg /\ p >= completeness)
          /\ completeness' = p
          /\ scopeArg' = s
          /\ tier' = recommendation_tier(inputs, p, s)
    /\ prevCompleteness' = completeness
    /\ prevTier' = tier
    /\ pc' = IF pc = "start" THEN "called" ELSE "recalled"
    /\ UNCHANGED <<page, inputs, details, widgets, event, nevents, prevMsg,
                   required_keys, r, scope, why,
                   inputs_for_logic, msg, msg2>>

\* ---------------------------------------------------------- specifications
NextReadiness == CallBurnReadiness \/ CallComputeReadiness
SpecReadiness == InitFunctions /\ [][NextReadiness]_vars

NextScope == CallScopeTriageV2 \/ CallTriageScope
SpecScope == InitFunctions /\ [][NextScope]_vars

NextTier == CallRecommendationTierV2 \/ CallRecommendationTier
SpecTier == InitTier /\ [][NextTier]_vars

\* Any of the three engine functions of a page, called on a record that differs
\* from a base record in the fields its rules read.
NextRules ==
    \/ CallBurnReadiness \/ CallComputeReadiness
    \/ CallScopeTriageV2 \/ CallTriageScope
    \/ CallRecommendationTierV2 \/ CallRecommendationTier
SpecRules == InitRules /\ [][NextRules]_vars

\* ---------------------------------------------------- burn page: collection
\* Checkboxes of the burn page that are always rendered.
BurnCheckboxKeys ==
    DOMAIN CHECKLIST \ {"chemical_agent_known_if_chemical",
                        "electrical_voltage_known_if_electrical"}

\* inp is a record the `with left:` block can build: the selectbox gives one
\* of its options, a rendered checkbox a bool, and a mechanism-specific flag is
\* a checkbox value under its mechanism type and None otherwise.
BurnCollectable(inp) ==
    /\ inp["mechanism_type"] \in MechanismOptions
    /\ \A k \in BurnCheckboxKeys : inp[k] \in {"true", "false"}
    /\ inp["chemical_agent_known_if_chemical"] \in
          (IF inp["mechanism_type"] = "chemical" THEN {"true", "false"} ELSE {"none"})
    /\ inp["electrical_voltage_known_if_electrical"] \in
          (IF inp["mechanism_type"] = "electrical" THEN {"true", "false"} ELSE {"none"})

\* Sub-widget values the model enters: the joined morphology options, the
\* depth radio and the TBSA number (tenths); the other radios and selectboxes
\* stay at their first option, the other option lists and texts stay empty.
SubWidgetChoices ==
    [ morph_selected : {"", "Blistering/bullae"},
      depth_level : {"Superficial", "Uncertain"},
      tbsa_pct : DOMAIN FormatTbsa ]

\* add_detail(details, label, value) when the section's checkbox is checked.
AddIf(d, inp, key, label, value) ==
    IF Truthy(inp[key]) THEN add_detail(d, label, value) ELSE d

\* The details dict the `with left:` block builds, in the order of its
\* add_detail calls.
BurnDetails(inp, w) ==
    LET d1 == AddIf(<< >>, inp, "mechanism_documented", "Mechanism (structured)", "")
        d2 == AddIf(d1, inp, "time_of_injury", "Timeframe (structured)", "< 1 hour")
        d3 == AddIf(d2, inp, "morphology_burn_consistent",
                    "Morphology (structured)", w.morph_selected)
        d4 == AddIf(d3, inp, "depth_estimated", "Depth (structured)", w.depth_level)
        d5 == AddIf(d4, inp, "tbsa_estimated", "TBSA % (structured)", FormatTbsa[w.tbsa_pct])
        d6 == AddIf(d5, inp, "tbsa_estimated", "TBSA method (structured)", "Rule of 9s")
        d7 == AddIf(d6, inp, "circumferential_checked", "Circumferential (structured)", "No")
        d8 == AddIf(d7, inp, "consult_question_defined",
                    "Primary consult objective", "Confirm burn depth and TBSA")
    IN  d8

\* The burn page after one run of its `with left:` block.
Init ==
    /\ page = "burn"
    /\ \E v \in {"true", "false"} : Near(inputs, BaseInputs("burn", v), BurnKeys)
    /\ BurnCollectable(inputs)
    /\ \E w \in SubWidgetChoices : details = BurnDetails(inputs, w)
    /\ Fresh

\* The `with right:` block of the burn page.
RunBurnOutput ==
    /\ page = "burn" /\ pc = "start"
    /\ LET out == BurnOutput(inputs, details)
       IN  /\ required_keys' = burn_required_keys(inputs)
           /\ r' = out.r
           /\ inputs_for_logic' = out.inputs_for_logic
           /\ scope' = out.scope
           /\ why' = out.why
           /\ completeness' = out.r.completeness_pct
           /\ scopeArg' = out.scope
           /\ tier' = out.tier
           /\ msg' = out.msg
           /\ msg2' = out.msg2
    /\ pc' = "called"
    /\ UNCHANGED <<page, inputs, details, widgets, event, nevents, prevMsg,
                   prevCompleteness, prevTier>>

Next == RunBurnOutput
Spec == Init /\ [][Next]_vars

\* --------------------------------------- appendicitis page: script run
\* A str value and a list value, in the encoding of appy_add_detail.
StrValue(t) == [kind |-> "str", text |-> t, items |-> << >>]

ListValue(s) == [kind |-> "list", text |-> "", items |-> s]

\* Widgets of the appendicitis sidebar the model operates: the section
\* checkboxes, the three Yes/No/Uncertain red-flag radios, the suspicion and
\* impression radios and the imaging features multiselect.
AppyCheckboxKeys == DOMAIN AppyLabels \ {"consult_question_defined"}

AppyRadioKeys == {"unstable_radio", "sepsis_radio", "peritonitis_radio"}

AppyWidgetKeys ==
    AppyCheckboxKeys \cup AppyRadioKeys
    \cup {"clinical_suspicion", "img_impression", "img_features"}

\* The features that raise complicated_features.
ComplicatedFeatures == {"Abscess", "Perforation/free air", "Phlegmon"}

\* The inputs dict the sidebar code builds from the widget values w.
AppyInputs(w) ==
    [k \in AppyKeys |->
       CASE k = "clinical_suspicion" -> w["clinical_suspicion"]
         [] k = "hemodynamic_instability" ->
              IF w["unstable_radio"] = "Yes" THEN "true" ELSE "false"
         [] k = "sepsis_concern" -> IF w["sepsis_radio"] = "Yes" THEN "true" ELSE "false"
         [] k = "peritonitis" -> IF w["peritonitis_radio"] = "Yes" THEN "true" ELSE "false"
         [] k = "imaging_impression" -> w["img_impression"]
         [] k = "complicated_features" ->
              IF /\ w["imaging_addressed"] = "true"
                 /\ \E i \in 1..Len(w["img_features"]) :
                       w["img_features"][i] \in ComplicatedFeatures
              THEN "true" ELSE "false"
         [] k = "consult_question_defined" -> "true"
         [] OTHER -> w[k]]

\* add_detail(details, label, value) for each (label, value) of calls, in turn.
RECURSIVE AddAll(_, _)
AddAll(d, calls) ==
    IF Len(calls) = 0 THEN d
    ELSE AddAll(appy_add_detail(d, calls[1][1], calls[1][2]), Tail(calls))

\* The details dict the sidebar code builds, in the order of its add_detail
\* calls.  The number inputs stay 0 (no call is made for them), the free
\* texts stay empty, the other radios and selectboxes stay at their default.
AppyDetails(inp, w) ==
    LET Section(key, calls) == IF Truthy(inp[key]) THEN calls ELSE << >>
    IN  AddAll(<< >>,
          Section("vitals_reviewed",
                  << << "Vitals/context", StrValue("") >>,
                     << "Hemodynamic instability", StrValue(w["unstable_radio"]) >>,
                     << "Sepsis concern", StrValue(w["sepsis_radio"]) >> >>)
          \o Section("pain_duration_documented",
                     << << "Duration", StrValue("Unknown") >>,
                        << "Timeline details", StrValue("") >> >>)
          \o Section("pain_location_documented",
                     << << "Pain location", ListValue(<< >>) >>,
                        << "Migratory pain", StrValue("Unclear") >>,
                        << "Pain details", StrValue("") >> >>)
          \o Section("exam_documented",
                     << << "Exam findings", ListValue(<< >>) >>,
                        << "Peritonitis", StrValue(w["peritonitis_radio"]) >>,
                        << "Exam details", StrValue("") >> >>)
          \o Section("cbc_reviewed", << << "Labs context", StrValue("") >> >>)
          \o Section("pregnancy_addressed",
                     << << "Pregnancy status", StrValue("Not applicable") >>,
                        << "Pregnancy/GYN context", StrValue("") >> >>)
          \o Section("imaging_addressed",
                     << << "Imaging status", StrValue("Not done") >>,
                        << "Imaging modality", StrValue("CT A/P w/ IV contrast") >>,
                        << "Imaging impression", StrValue(inp["imaging_impression"]) >>,
                        << "Imaging features", ListValue(w["img_features"]) >>,
                        << "Imaging details", StrValue("") >> >>)
          \o << << "Consult question", StrValue("Evaluate for appendectomy") >>,
                << "Additional consult context", StrValue("") >> >>)

\* The output section: everything it computes from inputs and details.
AppyOutput(inp, det) ==
    LET rr == compute_readiness(inp)
        st == triage_scope(inp)
        tr == recommendation_tier(inp, rr.completeness_pct, st.scope)
    IN  [ r |-> rr, scope |-> st.scope, why |-> st.why, tier |-> tr,
          msg |-> build_message(det, tr, st.why, rr.missing_items) ]

\* ------------------------------------------------------ pages: UI events
\* Number of widget changes the user makes after the page has loaded.
MaxEvents == 3

BurnSubWidgets == {"morph_selected", "depth_level", "tbsa_pct"}

\* Widgets of the burn page: the mechanism selectbox, one checkbox per
\* checklist field, and the three sub-widgets of SubWidgetChoices.
BurnWidgetKeys == BurnKeys \cup BurnSubWidgets

\* Widgets of the burn page the user operates in the model; the other
\* checkboxes stay unchecked.
BurnEventKeys ==
    {"mechanism_type", "chemical_agent_known_if_chemical",
     "electrical_voltage_known_if_electrical", "mechanism_documented",
     "morphology_burn_consistent", "depth_estimated", "tbsa_estimated",
     "location_high_risk_checked"} \cup BurnSubWidgets

WidgetKeys(pg) == IF pg = "burn" THEN BurnWidgetKeys ELSE AppyWidgetKeys

EventKeys(pg) == IF pg = "burn" THEN BurnEventKeys ELSE AppyWidgetKeys

\* Values a widget can be given: a checkbox holds "true" or "false".
WidgetValues(k) ==
    CASE k = "mechanism_type" -> MechanismOptions
      [] k = "morph_selected" -> {"", "Blistering/bullae"}
      [] k = "depth_level" -> {"Superficial", "Uncertain"}
      [] k = "tbsa_pct" -> DOMAIN FormatTbsa
      [] k = "clinical_suspicion" -> SuspicionOptions
      [] k \in AppyRadioKeys -> {"No", "Yes", "Uncertain"}
      [] k = "img_impression" -> ImpressionOptions
      [] k = "img_features" -> { << >>, << "Abscess" >>, << "Appendicolith" >> }
      [] OTHER -> {"true", "false"}

\* The value of each widget when the page is loaded.
DefaultWidgets(pg) ==
    [k \in WidgetKeys(pg) |->
       CASE k = "mechanism_type" -> "thermal"
         [] k = "morph_selected" -> ""
         [] k = "depth_level" -> "Superficial"
         [] k = "tbsa_pct" -> 0
         [] k = "clinical_suspicion" -> "Uncertain"
         [] k \in AppyRadioKeys -> "Uncertain"
         [] k = "img_impression" -> "Not available"
         [] k = "img_features" -> << >>
         [] OTHER -> "false"]

\* The widget is rendered, and not disabled, by a run with the widget values
\* w: the condition the script puts around it, or its `disabled` argument.
Rendered(k, w) ==
    CASE k = "chemical_agent_known_if_chemical" -> w["mechanism_type"] = "chemical"
      [] k = "electrical_voltage_known_if_electrical" -> w["mechanism_type"] = "electrical"
      [] k = "morph_selected" -> w["morphology_burn_consistent"] = "true"
      [] k = "depth_level" -> w["depth_estimated"] = "true"
      [] k = "tbsa_pct" -> w["tbsa_estimated"] = "true"
      [] k \in {"unstable_radio", "sepsis_radio"} -> w["vitals_reviewed"] = "true"
      [] k = "peritonitis_radio" -> w["exam_documented"] = "true"
      [] k \in {"img_impression", "img_features"} -> w["imaging_addressed"] = "true"
      [] OTHER -> TRUE

\* The inputs dict the `with left:` block builds from the widget values w,
\* with the mechanism-specific flags left as the widget values whatever the
\* mechanism type.
BurnInputs_no_reset(w) ==
    [k \in BurnKeys |-> w[k]]

\* The inputs dict the `with left:` block builds from the widget values w: a
\* mechanism-specific flag is its checkbox under its mechanism type, and None
\* under any other.
BurnInputs(w) ==
    [k \in BurnKeys |->
       IF k \in {"chemical_agent_known_if_chemical",
                 "electrical_voltage_known_if_electrical"} /\ ~Rendered(k, w)
       THEN "none"
       ELSE w[k]]

\* Widget values kept by the session after a run with the values w.  The
\* burn page does not create the widgets whose condition is false; whether
\* the session keeps or forgets the value of such a widget is not decided by
\* the script, and either may happen.  The appendicitis page creates every
\* widget on every run (a disabled one included).
AfterRun(pg, w) ==
    IF pg = "burn"
    THEN { [k \in DOMAIN w |->
              IF k \in forgotten /\ ~Rendered(k, w) THEN DefaultWidgets(pg)[k] ELSE w[k]] :
           forgotten \in SUBSET ({"chemical_agent_known_if_chemical",
                                  "electrical_voltage_known_if_electrical"}
                                 \cup BurnSubWidgets) }
    ELSE {w}

\* One run of the burn script with the widget values w: what it computes.
BurnRun(w) ==
    LET inp == BurnInputs(w)
        det == BurnDetails(inp, w)
        out == BurnOutput(inp, det)
    IN  [ inputs |-> inp, details |-> det, required_keys |-> burn_required_keys(inp),
          r |-> out.r, scope |-> out.scope, why |-> out.why, tier |-> out.tier,
          inputs_for_logic |-> out.inputs_for_logic, msg |-> out.msg, msg2 |-> out.msg2 ]

\* One run of the appendicitis script with the widget values w.
AppyRun(w) ==
    LET inp == AppyInputs(w)
        det == AppyDetails(inp, w)
        out == AppyOutput(inp, det)
    IN  [ inputs |-> inp, details |-> det, required_keys |-> AppyRequired,
          r |-> out.r, scope |-> out.scope, why |-> out.why, tier |-> out.tier,
          inputs_for_logic |-> << >>, msg |-> out.msg, msg2 |-> << >> ]

PageRun(pg, w) == IF pg = "burn" THEN BurnRun(w) ELSE AppyRun(w)

\* The state a run with the widget values w leaves.
Shown(pg, w) ==
    \E run \in {PageRun(pg, w)} :
        /\ inputs' = run.inputs /\ details' = run.details
        /\ required_keys' = run.required_keys /\ r' = run.r
        /\ scope' = run.scope /\ why' = run.why /\ tier' = run.tier
        /\ completeness' = run.r.completeness_pct /\ scopeArg' = run.scope
        /\ inputs_for_logic' = run.inputs_for_logic
        /\ msg' = run.msg /\ msg2' = run.msg2

\* A page that has been loaded: every widget at its default, and the script
\* run once with these values.
InitUI ==
    /\ page \in Pages
    /\ widgets = DefaultWidgets(page)
    /\ \E run \in {PageRun(page, widgets)} :
           /\ inputs = run.inputs /\ details = run.details
           /\ required_keys = run.required_keys /\ r = run.r
           /\ scope = run.scope /\ why = run.why /\ tier = run.tier
           /\ completeness = run.r.completeness_pct /\ scopeArg = run.scope
           /\ inputs_for_logic = run.inputs_for_logic
           /\ msg = run.msg /\ msg2 = run.msg2
    /\ pc = "called"
    /\ event = << "load" >> /\ nevents = 0
    /\ prevCompleteness = 0 /\ prevTier = "" /\ prevMsg = << >>

\* The user gives widget k of the page the value v, and the script reruns
\* from the top with the new widget values.
WidgetChange(pg) ==
    /\ page = pg /\ nevents < MaxEvents
    /\ \E k \in EventKeys(pg) :
         /\ Rendered(k, widgets)
         /\ \E v \in WidgetValues(k) \ {widgets[k]} :
              LET w == [widgets EXCEPT ![k] = v]
              IN  /\ widgets' \in AfterRun(pg, w)
                  /\ Shown(pg, w)
                  /\ event' = << "widget_change", k >>
    /\ nevents' = nevents + 1
    /\ UNCHANGED <<page, pc, prevCompleteness, prevTier, prevMsg>>

\* A widget change on the burn page (app.py reruns).
BurnWidgetChange == WidgetChange("burn")

\* A widget change on the appendicitis page (2_Appendicitis_Consult.py reruns).
AppyWidgetChange == WidgetChange("appy")

NextUI == BurnWidgetChange \/ AppyWidgetChange
SpecUI == InitUI /\ [][NextUI]_vars

\* ------------------------------------------- helper and composer functions
\* Number of add_detail calls made on one details dict.
MaxCalls == 2

\* Labels given to add_detail.
DetailLabels == {"Depth (structured)", "Mechanism (free text)"}

\* Values given to add_detail, in the encoding of appy_add_detail: str values
\* (empty, whitespace-only, padded, plain), lists (empty, of blanks only, with
\* a blank element between two others), None and the integer 0.
DetailValues ==
    { [kind |-> "str", text |-> t, items |-> << >>] :
        t \in {"", " ", "  ", " hot water scald ", "Superficial"} }
    \cup { [kind |-> "list", text |-> "", items |-> s] :
             s \in { << >>, << "", " " >>, << "RLQ", " ", "Flank" >> } }
    \cup { [kind |-> "None", text |-> "", items |-> << >>],
           [kind |-> "int", text |-> "0", items |-> << >>] }

\* The value as app.py's add_detail sees it: a str, or not a str.
AsBurnValue(value) == IF value.kind = "str" THEN value.text ELSE "none"

\* The (scope, rationale) pairs the page's scope classifier returns.
ScopeWhy(pg) ==
    IF pg = "burn"
    THEN { [scope |-> "WITHIN SCOPE", why |-> "Burn-consistent mechanism and morphology."],
           [scope |-> "WITHIN SCOPE", why |-> "Special burn mechanism present."],
           [scope |-> "OUTSIDE OF SCOPE",
            why |-> "Mechanism or morphology not consistent with burn."],
           [scope |-> "UNCERTAIN", why |-> "Insufficient data to confirm burn scope."] }
    ELSE { [scope |-> "HIGH RISK",
            why |-> "Red flags present (instability/peritonitis/sepsis/confirmed or complicated appendicitis)."],
           [scope |-> "LIKELY",
            why |-> "Clinical picture reasonably consistent with appendicitis."],
           [scope |-> "UNLIKELY",
            why |-> "Clinical picture less consistent with appendicitis."],
           [scope |-> "UNCERTAIN", why |-> "Insufficient data to estimate likelihood."] }

\* The tiers the page's recommendation function returns.
TierArgs(pg) ==
    IF pg = "burn"
    THEN {"CONSULT NOW", "STRONGLY RECOMMEND BURN SURGERY CONSULT",
          "LOW RECOMMENDATION FOR BURN SURGERY CONSULT", "CONSIDER ALTERNATE SERVICE"}
    ELSE {"CONSULT NOW", "STRONGLY RECOMMEND GEN SURG CONSULT", "RECOMMEND GEN SURG CONSULT",
          "LOW RECOMMENDATION (GET KEY INFO FIRST)", "CONSIDER ALTERNATE SERVICE / OBSERVE",
          "CONSIDER ALTERNATE SERVICE / GET MORE DATA"}

\* Missing lists given to the composers: the labels of the first n required
\* fields, for no field, one field, and one field more than the composer keeps.
MissingArgs(pg) ==
    IF pg = "burn"
    THEN { [i \in 1..n |-> CHECKLIST[BurnCoreKeys[i]]] : n \in {0, 1, BurnMissingCap + 1} }
    ELSE { [i \in 1..n |-> AppyLabels[AppyRequired[i]]] : n \in {0, 1, AppyMissingCap + 1} }

\* An empty details dict, and the inputs record the burn composer reads its
\* severe-skin flag from.
InitCompose ==
    /\ page \in Pages
    /\ \E v \in {"true", "false"} :
          inputs = IF page = "burn"
                   THEN [BaseInputs("burn", "false") EXCEPT !["severe_skin_failure_flag"] = v]
                   ELSE BaseInputs("appy", "false")
    /\ details = << >>
    /\ Fresh

\* add_detail(details, l, v) of app.py
CallAddDetail ==
    /\ page = "burn" /\ pc = "start" /\ nevents < MaxCalls
    /\ \E l \in DetailLabels, v \in DetailValues :
          /\ details' = add_detail(details, l, AsBurnValue(v))
          /\ event' = << "add_detail", l, v >>
    /\ nevents' = nevents + 1
    /\ UNCHANGED <<page, inputs, widgets, prevMsg, pc, required_keys, r, scope, why,
                   completeness, scopeArg, tier, prevCompleteness, prevTier,
                   inputs_for_logic, msg, msg2>>

\* add_detail(details, l, v) of 2_Appendicitis_Consult.py
CallAppyAddDetail ==
    /\ page = "appy" /\ pc = "start" /\ nevents < MaxCalls
    /\ \E l \in DetailLabels, v \in DetailValues :
          /\ details' = appy_add_detail(details, l, v)
          /\ event' = << "add_detail", l, v >>
    /\ nevents' = nevents + 1
    /\ UNCHANGED <<page, inputs, widgets, prevMsg, pc, required_keys, r, scope, why,
                   completeness, scopeArg, tier, prevCompleteness, prevTier,
                   inputs_for_logic, msg, msg2>>

\* msg = generate_message_v5(inputs, s, w, m) and the assembly of msg2 from it
\* and details; t is the tier of the evaluation, which the composer is not
\* given.  A second composition takes the arguments of the first.
CallGenerateMessageV5 ==
    /\ page = "burn" /\ pc \in {"start", "called"}
    /\ \E sw \in ScopeWhy("burn"), t \in TierArgs("burn"), m \in MissingArgs("burn") :
          /\ pc = "called" => (sw.scope = scope /\ sw.why = why /\ t = tier
                                /\ m = r.missing_items)
          /\ scope' = sw.scope /\ why' = sw.why /\ tier' = t
          /\ r' = [r EXCEPT !.missing_items = m]
          /\ LET composed == generate_message_v5(inputs, sw.scope, sw.why, m)
             IN  /\ msg' = composed
                 /\ msg2' = IF Len(details) > 0
                            THEN composed \o << "\n\nKey details documented:\n" >>
                                 \o details_block(details)
                            ELSE composed
    /\ prevMsg' = msg2
    /\ event' = << "compose" >>
    /\ pc' = IF pc = "start" THEN "called" ELSE "recalled"
    /\ UNCHANGED <<page, inputs, details, widgets, nevents, required_keys, completeness,
                   scopeArg, prevCompleteness, prevTier, inputs_for_logic>>

\* msg = build_message(details, t, w, m); a second composition takes the
\* arguments of the first.
CallBuildMessage ==
    /\ page = "appy" /\ pc \in {"start", "called"}
    /\ \E sw \in ScopeWhy("appy"), t \in TierArgs("appy"), m \in MissingArgs("appy") :
          /\ pc = "called" => (sw.scope = scope /\ sw.why = why /\ t = tier
                                /\ m = r.missing_items)
          /\ scope' = sw.scope /\ why' = sw.why /\ tier' = t
          /\ r' = [r EXCEPT !.missing_items = m]
          /\ msg' = build_message(details, t, sw.why, m)
    /\ prevMsg' = msg
    /\ event' = << "compose" >>
    /\ pc' = IF pc = "start" THEN "called" ELSE "recalled"
    /\ UNCHANGED <<page, inputs, details, widgets, nevents, required_keys, completeness,
                   scopeArg, prevCompleteness, prevTier, inputs_for_logic, msg2>>

NextCompose ==
    \/ CallAddDetail \/ CallAppyAddDetail
    \/ CallGenerateMessageV5 \/ CallBuildMessage
SpecCompose == InitCompose /\ [][NextCompose]_vars

\* ================================================================== claims
\* The special/high-risk flags of the burn page: one of them is exactly True.
BurnSpecialTrue(inp) ==
    \/ Get(inp, "chemical_agent_known_if_chemical") = "true"
    \/ Get(inp, "electrical_voltage_known_if_electrical") = "true"
    \/ Get(inp, "inhalation_risk_present") = "true"

\* The red flags of the appendicitis page: one of them is raised.
AppyRedFlagTrue(inp) ==
    \/ \E k \in AppyRedFlagKeys : Get(inp, k) = "true"
    \/ Get(inp, "imaging_impression") = "Confirmed appendicitis"

\* C1: precedence invariant.  Whenever a special/high-risk flag is exactly
\* true and a primary flag is not (burn: mechanism_documented or
\* morphology_burn_consistent false/unset; appendicitis: clinical_suspicion
\* "Low"), the scope classifier returns WITHIN SCOPE / HIGH RISK, never
\* OUTSIDE OF SCOPE / UNLIKELY.
C1_Precedence ==
    pc = "called" =>
      /\ ( /\ page = "burn"
           /\ BurnSpecialTrue(inputs)
           /\ \/ Get(inputs, "mechanism_documented") # "true"
              \/ Get(inputs, "morphology_burn_consistent") # "true" )
         => scope = "WITHIN SCOPE"
      /\ ( /\ page = "appy"
           /\ AppyRedFlagTrue(inputs)
           /\ Get(inputs, "clinical_suspicion") = "Low" )
         => scope = "HIGH RISK"

\* An electrical injury whose mechanism and morphology boxes are both False
\* was classified, and came out within scope.
C1_Witness ==
    /\ pc = "called" /\ page = "burn"
    /\ Get(inputs, "electrical_voltage_known_if_electrical") = "true"
    /\ Get(inputs, "mechanism_documented") = "false"
    /\ Get(inputs, "morphology_burn_consistent") = "false"
    /\ scope = "WITHIN SCOPE"

\* C2: the special/high-risk rule is evaluated first.  Whenever a
\* special/high-risk flag is exactly true the classifier returns the rule-1
\* result with the rule-1 rationale, also when both primary flags are true.
C2_SpecialRuleFirst ==
    pc = "called" =>
      /\ (page = "burn" /\ BurnSpecialTrue(inputs))
         => (scope = "WITHIN SCOPE" /\ why = "Special burn mechanism present.")
      /\ (page = "appy" /\ AppyRedFlagTrue(inputs))
         => ( /\ scope = "HIGH RISK"
              /\ why = "Red flags present (instability/peritonitis/sepsis/confirmed or complicated appendicitis)." )

\* C3: burn scenario 1.  Every core required flag true, mechanism_type
\* "thermal" and no mechanism-specific special flag set: the output section
\* yields 100.0 %, no missing item, WITHIN SCOPE and the tier STRONGLY
\* RECOMMEND BURN SURGERY CONSULT.
C3_ScenarioOne ==
    ( /\ pc = "called" /\ page = "burn"
      /\ \A i \in 1..Len(BurnCoreKeys) : Get(inputs, BurnCoreKeys[i]) = "true"
      /\ Get(inputs, "mechanism_type") = "thermal"
      /\ Get(inputs, "chemical_agent_known_if_chemical") # "true"
      /\ Get(inputs, "electrical_voltage_known_if_electrical") # "true" )
    => ( /\ r.completeness_pct = 1000
         /\ r.missing_items = << >>
         /\ scope = "WITHIN SCOPE"
         /\ tier = "STRONGLY RECOMMEND BURN SURGERY CONSULT" )

\* The tiers that send the case to another service.
AlternateTiers ==
    {"CONSIDER ALTERNATE SERVICE", "CONSIDER ALTERNATE SERVICE / OBSERVE",
     "CONSIDER ALTERNATE SERVICE / GET MORE DATA"}

\* C4: whenever the scope given to the recommendation function is OUTSIDE OF
\* SCOPE (appendicitis: UNLIKELY), the tier is a consider-alternate-service
\* tier, for every percentage and every record.
C4_OutsideGivesAlternate ==
    pc # "start" =>
      /\ (page = "burn" /\ scopeArg = "OUTSIDE OF SCOPE") => tier \in AlternateTiers
      /\ (page = "appy" /\ scopeArg = "UNLIKELY") => tier \in AlternateTiers

\* C5: for every scope other than OUTSIDE OF SCOPE / UNLIKELY (WITHIN SCOPE and
\* also UNCERTAIN), a special/high-risk flag or the high-risk-location flag
\* that is exactly true makes the tier CONSULT NOW, for every percentage.
C5_HighRiskConsultNow ==
    pc # "start" =>
      /\ ( /\ page = "burn" /\ scopeArg # "OUTSIDE OF SCOPE"
           /\ \/ BurnSpecialTrue(inputs)
              \/ Get(inputs, "location_high_risk_checked") = "true" )
         => tier = "CONSULT NOW"
      /\ (page = "appy" /\ scopeArg # "UNLIKELY" /\ AppyRedFlagTrue(inputs))
         => tier = "CONSULT NOW"

\* No high-risk flag of the page is exactly true.
NoHighRisk(pg, inp) ==
    IF pg = "burn"
    THEN ~BurnSpecialTrue(inp) /\ Get(inp, "location_high_risk_checked") # "true"
    ELSE ~AppyRedFlagTrue(inp)

\* The recommend tiers and the low-recommendation tiers of the two pages.
RecommendTiers ==
    {"STRONGLY RECOMMEND BURN SURGERY CONSULT", "STRONGLY RECOMMEND GEN SURG CONSULT",
     "RECOMMEND GEN SURG CONSULT"}

LowTiers ==
    {"LOW RECOMMENDATION FOR BURN SURGERY CONSULT", "LOW RECOMMENDATION (GET KEY INFO FIRST)"}

\* C6 as stated: within scope (burn WITHIN SCOPE; appendicitis LIKELY, that is
\* clinical_suspicion High or Moderate) and no high-risk flag true, the tier is
\* the (strongly-)recommend tier iff the percentage is at or above the page's
\* threshold and the low-recommendation tier iff it is below.
C6_ThresholdIff ==
    ( /\ pc # "start"
      /\ NoHighRisk(page, inputs)
      /\ \/ page = "burn" /\ scopeArg = "WITHIN SCOPE"
         \/ /\ page = "appy" /\ scopeArg = "LIKELY"
            /\ Get(inputs, "clinical_suspicion") \in {"High", "Moderate"} )
    => LET threshold == IF page = "burn" THEN 700 ELSE 600
       IN  /\ tier \in RecommendTiers <=> completeness >= threshold
           /\ tier \in LowTiers <=> completeness < threshold

\* C6 amended: the threshold decides the tier on the burn page (70) and, on
\* the appendicitis page, for clinical_suspicion Moderate (60); for
\* clinical_suspicion High the tier is STRONGLY RECOMMEND GEN SURG CONSULT at
\* every percentage.
C6_ThresholdIffModerate ==
    (pc # "start" /\ NoHighRisk(page, inputs)) =>
      /\ (page = "burn" /\ scopeArg = "WITHIN SCOPE")
         => /\ tier = "STRONGLY RECOMMEND BURN SURGERY CONSULT" <=> completeness >= 700
            /\ tier = "LOW RECOMMENDATION FOR BURN SURGERY CONSULT" <=> completeness < 700
      /\ ( /\ page = "appy" /\ scopeArg = "LIKELY"
           /\ Get(inputs, "clinical_suspicion") = "Moderate" )
         => /\ tier = "RECOMMEND GEN SURG CONSULT" <=> completeness >= 600
            /\ tier = "LOW RECOMMENDATION (GET KEY INFO FIRST)" <=> completeness < 600
      /\ ( /\ page = "appy" /\ scopeArg = "LIKELY"
           /\ Get(inputs, "clinical_suspicion") = "High" )
         => tier = "STRONGLY RECOMMEND GEN SURG CONSULT"

\* High suspicion, scope LIKELY, a percentage below 60: strongly recommended.
C6_Witness ==
    /\ pc # "start" /\ page = "appy" /\ scopeArg = "LIKELY"
    /\ NoHighRisk(page, inputs)
    /\ Get(inputs, "clinical_suspicion") = "High"
    /\ completeness < 600
    /\ tier = "STRONGLY RECOMMEND GEN SURG CONSULT"

\* Urgency rank: alternate-service < low-recommendation < (strongly-)recommend
\* < consult-now.
Rank(t) ==
    IF t \in AlternateTiers THEN 0
    ELSE IF t \in LowTiers THEN 1
    ELSE IF t \in RecommendTiers THEN 2
    ELSE IF t = "CONSULT NOW" THEN 3
    ELSE 0 - 1

\* C7: tier monotonicity.  Two calls with the same record and scope and
\* percentages p1 <= p2: the tier for p2 ranks at least as urgent as the tier
\* for p1.
C7_TierMonotone ==
    (pc = "recalled" /\ prevCompleteness <= completeness)
    => (Rank(prevTier) >= 0 /\ Rank(prevTier) <= Rank(tier))

\* A second call crossed the threshold and the tier rose from low to recommend.
C7_Witness ==
    /\ pc = "recalled"
    /\ prevCompleteness < completeness
    /\ prevTier \in LowTiers
    /\ tier \in RecommendTiers

\* The active required list as the readiness rule states it: the core list in
\* its listed order, then the conditional field the mechanism type selects.
ActiveRequired(pg, inp) ==
    IF pg = "appy" THEN AppyRequired
    ELSE BurnCoreKeys
         \o (IF Get(inp, "mechanism_type") = "chemical"
             THEN << "chemical_agent_known_if_chemical" >> ELSE << >>)
         \o (IF Get(inp, "mechanism_type") = "electrical"
             THEN << "electrical_voltage_known_if_electrical" >> ELSE << >>)

\* The label the page reports for a required field.
LabelOf(pg, k) == IF pg = "appy" THEN AppyLabels[k] ELSE CHECKLIST[k]

\* C8: readiness bounds.  The percentage lies in [0.0, 100.0] and is exactly
\* 100.0 iff every field of the active required list is exactly boolean true;
\* false, None, an absent key and a non-boolean all count as not done.
C8_ReadinessBounds ==
    pc = "called" =>
      LET req == ActiveRequired(page, inputs)
      IN  /\ r.completeness_pct >= 0
          /\ r.completeness_pct <= 1000
          /\ r.completeness_pct = 1000
             <=> \A i \in 1..Len(req) : Get(inputs, req[i]) = "true"

\* A chemical burn with all thirteen active fields true was scored 100.0.
C8_Witness ==
    /\ pc = "called" /\ page = "burn"
    /\ Get(inputs, "mechanism_type") = "chemical"
    /\ Get(inputs, "chemical_agent_known_if_chemical") = "true"
    /\ r.completeness_pct = 1000

\* C9: missing-list completeness and order.  The missing list holds the label
\* of every required field that is not exactly true exactly once and no other
\* label, count(done) + len(missing) = len(required), and the labels follow
\* the declaration order of the required list (conditional field last).
C9_MissingList ==
    pc = "called" =>
      LET req == ActiveRequired(page, inputs)
          missing == r.missing_items
          NotDone == { i \in 1..Len(req) : Get(inputs, req[i]) # "true" }
          Done == { i \in 1..Len(req) : Get(inputs, req[i]) = "true" }
          \* position in req of the field a reported label belongs to
          Pos(l) == CHOOSE i \in 1..Len(req) : LabelOf(page, req[i]) = l
      IN  /\ \A i \in NotDone :
                Cardinality({ j \in 1..Len(missing) : missing[j] = LabelOf(page, req[i]) }) = 1
          /\ \A j \in 1..Len(missing) :
                \E i \in NotDone : missing[j] = LabelOf(page, req[i])
          /\ Cardinality(Done) + Len(missing) = Len(req)
          /\ \A j \in 1..(Len(missing) - 1) : Pos(missing[j]) < Pos(missing[j + 1])

\* A chemical burn with the agent field and at least one core field not done:
\* the agent label closes the missing list.
C9_Witness ==
    /\ pc = "called" /\ page = "burn"
    /\ Get(inputs, "mechanism_type") = "chemical"
    /\ Len(r.missing_items) >= 2
    /\ r.missing_items[Len(r.missing_items)] = CHECKLIST["chemical_agent_known_if_chemical"]

\* Members of a sequence.
Range(s) == { s[i] : i \in 1..Len(s) }

\* C10: conditional required set (burn).  The chemical field is required iff
\* mechanism_type = "chemical", the electrical field iff "electrical"; under
\* "chemical" with the field not true and all else true its label is missing
\* and the percentage below 100.0; under any other mechanism type a non-true
\* value of the field adds no missing label and does not lower the percentage.
C10_ConditionalRequired ==
    (pc = "called" /\ page = "burn") =>
      LET chem == "chemical_agent_known_if_chemical"
          elec == "electrical_voltage_known_if_electrical"
          mech == Get(inputs, "mechanism_type")
          OthersTrue(k) ==
              \A i \in 1..Len(required_keys) :
                  required_keys[i] # k => Get(inputs, required_keys[i]) = "true"
      IN  /\ chem \in Range(required_keys) <=> mech = "chemical"
          /\ elec \in Range(required_keys) <=> mech = "electrical"
          /\ (mech = "chemical" /\ Get(inputs, chem) \in {"none", "false"} /\ OthersTrue(chem))
             => ( /\ CHECKLIST[chem] \in Range(r.missing_items)
                  /\ r.completeness_pct < 1000 )
          /\ (mech # "chemical" /\ Get(inputs, chem) # "true")
             => ( /\ CHECKLIST[chem] \notin Range(r.missing_items)
                  /\ r = burn_consult_readiness_v2([inputs EXCEPT ![chem] = "true"]) )
          /\ (mech # "electrical" /\ Get(inputs, elec) # "true")
             => ( /\ CHECKLIST[elec] \notin Range(r.missing_items)
                  /\ r = burn_consult_readiness_v2([inputs EXCEPT ![elec] = "true"]) )

\* A chemical burn, agent field unset, every other required field true: the
\* agent label is the one missing item and the score is 92.3.
C10_Witness ==
    /\ pc = "called" /\ page = "burn"
    /\ Get(inputs, "mechanism_type") = "chemical"
    /\ Get(inputs, "chemical_agent_known_if_chemical") = "none"
    /\ r.missing_items = << CHECKLIST["chemical_agent_known_if_chemical"] >>
    /\ r.completeness_pct = 923

\* The boolean fields the precedence rules of a page read.
BooleanRuleKeys(pg) ==
    IF pg = "burn"
    THEN {"mechanism_documented", "morphology_burn_consistent",
          "chemical_agent_known_if_chemical", "electrical_voltage_known_if_electrical",
          "inhalation_risk_present", "location_high_risk_checked"}
    ELSE AppyRedFlagKeys

\* C11: strict-true reading.  A boolean rule field that holds a truthy value
\* which is not the boolean true never satisfies a rule: what the scope
\* classifier and the recommendation function return for the record is what
\* they return for the same record with that field set to false.
C11_StrictTrue ==
    \A k \in BooleanRuleKeys(page) :
      (pc # "start" /\ Get(inputs, k) = "yes") =>
        LET falsified == [inputs EXCEPT ![k] = "false"]
        IN  /\ scope # "" =>
                 << scope, why >> =
                   (IF page = "burn"
                    THEN << scope_triage_v2(falsified).scope, scope_triage_v2(falsified).why >>
                    ELSE << triage_scope(falsified).scope, triage_scope(falsified).why >>)
            /\ tier # "" =>
                 tier = (IF page = "burn"
                         THEN recommendation_tier_v2(falsified, completeness, scopeArg)
                         ELSE recommendation_tier(falsified, completeness, scopeArg))

\* A record whose only raised red flag is a non-boolean truthy value was
\* classified and did not come out HIGH RISK.
C11_Witness ==
    /\ pc = "called" /\ page = "appy"
    /\ Get(inputs, "peritonitis") = "yes"
    /\ ~AppyRedFlagTrue(inputs)
    /\ scope \in {"LIKELY", "UNLIKELY", "UNCERTAIN"}

\* The closed result sets of the scope classifiers and of the recommenders.
ScopeResults(pg) == ScopeArgs(pg)

TierResults(pg) == TierArgs(pg)

\* The page's enum field holds a token outside its option list, or is absent.
EnumUnrecognised(pg, inp) ==
    IF pg = "burn"
    THEN Get(inp, "mechanism_type") \notin MechanismOptions
    ELSE Get(inp, "clinical_suspicion") \notin SuspicionOptions

\* C12: an unrecognised or absent enum token is treated as uncertain, never as
\* an error.  With such a token every engine function still returns a value of
\* its closed result set: the burn readiness is the one of mechanism type
\* "unknown" (no conditional requirement); the appendicitis scope is UNCERTAIN
\* unless a red flag is true, and the appendicitis tier for that scope is
\* CONSIDER ALTERNATE SERVICE / GET MORE DATA.
C12_UnrecognisedEnum ==
    (pc # "start" /\ EnumUnrecognised(page, inputs)) =>
      /\ scope # "" => scope \in ScopeResults(page)
      /\ tier # "" => tier \in TierResults(page)
      /\ (page = "burn" /\ required_keys # << >>) =>
            /\ required_keys = BurnCoreKeys
            /\ r = burn_consult_readiness_v2([inputs EXCEPT !["mechanism_type"] = "unknown"])
            /\ r.completeness_pct \in 0..1000
      /\ (page = "appy" /\ scope # "" /\ ~AppyRedFlagTrue(inputs)) => scope = "UNCERTAIN"
      /\ (page = "appy" /\ tier # "" /\ scopeArg = "UNCERTAIN")
            => tier = "CONSIDER ALTERNATE SERVICE / GET MORE DATA"

\* A record whose clinical_suspicion is a token outside the option list, and
\* with no red flag, was classified and came out UNCERTAIN.
C12_Witness ==
    /\ pc = "called" /\ page = "appy"
    /\ Get(inputs, "clinical_suspicion") = "Very high"
    /\ ~AppyRedFlagTrue(inputs)
    /\ scope = "UNCERTAIN"

\* The final paste-ready message of the page: msg2 on the burn page, msg on
\* the appendicitis page.
PasteReady == IF page = "burn" THEN msg2 ELSE msg

\* C13: for every scope other than OUTSIDE OF SCOPE the composed message opens
\* with a template that names the recommendation tier and the scope
\* rationale, so that two evaluations which differ only in tier give messages
\* that differ in the tier they name.
C13_MessageNamesTier ==
    (pc \in {"called", "recalled"} /\ scope # "OUTSIDE OF SCOPE") =>
      /\ tier \in Range(PasteReady)
      /\ why \in Range(PasteReady)

\* The fragment that opens the key-details block, and the one that opens the
\* missing-elements sentence, in either page's message.
DetailsHeadings == {"\n\nKey details documented:\n", "\n\nKey details:\n"}

MissingLeads ==
    {" Missing elements: ", " Missing elements being obtained: ",
     "\n\nMissing items to make consult higher-yield: "}

\* Those of them that begin with a blank line.
BlankLineLeads ==
    {"\n\nKey details documented:\n", "\n\nKey details:\n",
     "\n\nMissing items to make consult higher-yield: "}

\* Where fragments of the set S stand in the message m.
Positions(m, S) == { i \in 1..Len(m) : m[i] \in S }

\* C14: section layout of the final paste-ready message.  It is the opening
\* paragraph, then the key-details block, then the missing-elements sentence,
\* in that order; each of the two optional sections is present iff its source
\* collection (details, missing labels) is non-empty, and each present section
\* is separated from what precedes it by a blank line.
C14_SectionLayout ==
    pc \in {"called", "recalled"} =>
      LET m == PasteReady
          dpos == Positions(m, DetailsHeadings)
          mpos == Positions(m, MissingLeads)
      IN  /\ (dpos # {}) <=> (Len(details) > 0)
          /\ (mpos # {}) <=> (Len(r.missing_items) > 0)
          /\ Cardinality(dpos) <= 1 /\ Cardinality(mpos) <= 1
          /\ \A i \in dpos \cup mpos : i > 1 /\ m[i] \in BlankLineLeads
          /\ \A i \in dpos, j \in mpos : i < j

\* C15: details echo.  The key-details block has exactly one "- label: value"
\* line per entry of the details mapping, in the insertion order of the
\* entries; an empty details mapping never produces the key-details heading;
\* composing a second time from the same arguments yields the same message.
C15_DetailsEcho ==
    pc \in {"called", "recalled"} =>
      LET m == PasteReady
          n == Len(details)
          dpos == Positions(m, DetailsHeadings)
      IN  /\ n = 0 => dpos = {}
          /\ Cardinality(Positions(m, {"- "})) = n
          /\ n > 0 =>
               \E h \in dpos :
                 /\ \A i \in 1..n :
                      LET b == h + 5 * (i - 1)
                      IN  /\ b + 4 <= Len(m)
                          /\ m[b + 1] = "- " /\ m[b + 2] = details[i][1]
                          /\ m[b + 3] = ": " /\ m[b + 4] = details[i][2]
                          /\ i < n => m[b + 5] = "\n"
                 /\ \/ h + 5 * n - 1 = Len(m)
                    \/ m[h + 5 * n] \in MissingLeads
          /\ pc = "recalled" => m = prevMsg

\* A message was composed twice from a details mapping of two entries whose
\* insertion order is not their alphabetical order.
C15_Witness ==
    /\ pc = "recalled" /\ page = "appy"
    /\ Len(details) = 2
    /\ details[1][1] = "Mechanism (free text)"
    /\ Positions(msg, DetailsHeadings) # {}
    /\ Len(r.missing_items) > 0

\* The value given to add_detail is a str that is empty or whitespace only.
BlankValue(value) == value.kind = "str" /\ Strip(value.text) = ""

\* C16: details invariant.  After any sequence of add_detail calls with
\* arbitrary labels and values (empty and whitespace-only strings, None, empty
\* lists, non-string values) every entry of the details mapping has a value
\* that is non-empty after trimming, and a call whose value is empty or
\* whitespace only leaves the mapping unchanged.
C16_DetailsInvariant ==
    /\ [](\A i \in 1..Len(details) : Strip(details[i][2]) # "")
    /\ [][ ( /\ nevents' = nevents + 1
             /\ event'[1] = "add_detail"
             /\ BlankValue(event'[3]) )
           => details' = details ]_vars

\* The last add_detail call was given a whitespace-only value for the label
\* of an entry the mapping already held, and the entry kept its value.
C16_Witness ==
    /\ pc = "start" /\ nevents = 2
    /\ event[1] = "add_detail" /\ event[2] = "Depth (structured)"
    /\ event[3].kind = "str" /\ event[3].text = "  "
    /\ details = << << "Depth (structured)", "Superficial" >> >>

\* What the output section shows.
EngineOutput == << r, scope, why, tier, msg, msg2 >>

\* C17: compute only on explicit submit.  In any sequence of UI events the
\* engine (readiness, scope, tier, message) is evaluated and its output
\* replaced only in response to an explicit submission/confirmation event, not
\* in response to an individual widget change.
C17_ComputeOnSubmit ==
    [][ EngineOutput' # EngineOutput => event'[1] = "submit" ]_vars

\* C20: conditionally-applicable flags.  After any sequence of UI changes a
\* flag is true only while its discriminator holds.  Burn page:
\* chemical_agent_known_if_chemical is true only if mechanism_type is
\* "chemical", electrical_voltage_known_if_electrical only if it is
\* "electrical"; each is None under any other mechanism type, so the two are
\* never both true.  Appendicitis page: complicated_features is true only if
\* imaging_addressed is true.
C20_ConditionalFlags ==
    /\ page = "burn" =>
         /\ inputs["mechanism_type"] # "chemical"
              => inputs["chemical_agent_known_if_chemical"] = "none"
         /\ inputs["mechanism_type"] # "electrical"
              => inputs["electrical_voltage_known_if_electrical"] = "none"
         /\ inputs["chemical_agent_known_if_chemical"] \in {"true", "false", "none"}
         /\ inputs["electrical_voltage_known_if_electrical"] \in {"true", "false", "none"}
         /\ ~ ( /\ inputs["chemical_agent_known_if_chemical"] = "true"
                /\ inputs["electrical_voltage_known_if_electrical"] = "true" )
    /\ page = "appy" =>
         ( inputs["complicated_features"] = "true" => inputs["imaging_addressed"] = "true" )

\* The mechanism type was set to chemical, the chemical checkbox was checked,
\* and the mechanism type was then switched to electrical: the session still
\* holds the checked box, and the flag of the inputs record is None.
C20_Witness ==
    /\ page = "burn" /\ nevents = 3
    /\ event = << "widget_change", "mechanism_type" >>
    /\ widgets["chemical_agent_known_if_chemical"] = "true"
    /\ inputs["mechanism_type"] = "electrical"
    /\ inputs["chemical_agent_known_if_chemical"] = "none"

\* C18: the burn scope classifier returns only WITHIN SCOPE or OUTSIDE OF
\* SCOPE.  For no input record (any mix of true, false, null, absent or
\* non-boolean field values) does it return UNCERTAIN, so the final
\* fall-through of recommendation_tier_v2 is never taken for a scope the
\* classifier returned: the tier CONSIDER ALTERNATE SERVICE then comes from the
\* OUTSIDE OF SCOPE branch alone.
C18_BurnScopeNeverUncertain ==
    (pc = "called" /\ page = "burn") =>
      /\ scope \in {"WITHIN SCOPE", "OUTSIDE OF SCOPE"}
      /\ \A p \in PctArgs :
           recommendation_tier_v2(inputs, p, scope) = "CONSIDER ALTERNATE SERVICE"
             => scope = "OUTSIDE OF SCOPE"

\* A record whose mechanism flag is missing and whose morphology flag is
\* None, with no special flag true, was classified and came out OUTSIDE OF
\* SCOPE.
C18_Witness ==
    /\ pc = "called" /\ page = "burn"
    /\ inputs["mechanism_documented"] = "absent"
    /\ inputs["morphology_burn_consistent"] = "none"
    /\ ~BurnSpecialTrue(inputs)
    /\ scope = "OUTSIDE OF SCOPE"

\* C19: frame of the contradiction patch.  The burn pipeline leaves the
\* collected inputs record unchanged and changes nothing in the logic copy but
\* morphology_burn_consistent, which it only ever sets to true; readiness
\* percentage and missing list are those of the unpatched record, so with the
\* morphology checkbox unchecked its label stays in the missing list even when
\* the patched scope is WITHIN SCOPE; and the scope computed from the patched
\* copy is never OUTSIDE OF SCOPE when the scope of the unpatched record is
\* WITHIN SCOPE.
C19_PatchFrame ==
    /\ [][inputs' = inputs]_vars
    /\ []( (pc = "called" /\ page = "burn") =>
             /\ \A k \in DOMAIN inputs :
                  \/ inputs_for_logic[k] = inputs[k]
                  \/ k = "morphology_burn_consistent" /\ inputs_for_logic[k] = "true"
             /\ r = burn_consult_readiness_v2(inputs)
             /\ inputs["morphology_burn_consistent"] = "false"
                  => CHECKLIST["morphology_burn_consistent"] \in Range(r.missing_items)
             /\ scope_triage_v2(inputs).scope = "WITHIN SCOPE"
                  => scope # "OUTSIDE OF SCOPE" )

\* The morphology checkbox is unchecked and a depth was entered: the logic
\* copy was patched, the scope came out WITHIN SCOPE, and the morphology label
\* is in the missing list.
C19_Witness ==
    /\ pc = "called" /\ page = "burn"
    /\ inputs["morphology_burn_consistent"] = "false"
    /\ inputs_for_logic["morphology_burn_consistent"] = "true"
    /\ scope = "WITHIN SCOPE"
    /\ why = "Burn-consistent mechanism and morphology."
    /\ CHECKLIST["morphology_burn_consistent"] \in Range(r.missing_items)

=============================================================================
